---------------------------- MODULE Spec2Model ----------------------------
(***************************************************************************)
(* A model of pyserde's core module (src/serde/core.py): the per-type      *)
(* Scope and add_func, the structural instance check is_instance, the      *)
(* Tagging policy, the GlobalScope registry of union wrapper classes, the  *)
(* Field descriptors with their skip predicates and wire names, and        *)
(* coerce.                                                                 *)
(***************************************************************************)
EXTENDS Integers, Sequences, FiniteSets, TLC

(***************************************************************************)
(* Bounds of the model.                                                    *)
(***************************************************************************)
\* longest list / tuple / set / dict value that is enumerated
MaxLen == 3
\* largest number of declared element types of a fixed-arity tuple type
MaxArity == 2

(***************************************************************************)
(* Python values.  Every value is a record of one shape:                   *)
(*   k     the name of the value's class                                   *)
(*   a     the payload of an atom (0 where there is none)                  *)
(*   items the elements of a container in iteration order, the field       *)
(*         values of a dataclass instance, <<key, value>> of a dict item   *)
(***************************************************************************)
Atom(k, a) == [k |-> k, a |-> a, items |-> <<>>]
Box(k, items) == [k |-> k, a |-> 0, items |-> items]

None == Atom("NoneType", 0)
PyTrue == Atom("bool", 1)
Int1 == Atom("int", 1)
StrX == Atom("str", 1)

\* the elements containers are filled with: 1 and "x"
Elems == {Int1, StrX}

SeqsUpTo(S, n) == UNION {[1..m -> S] : m \in 0..n}

\* dict items: one key/value pair each
Pairs == {Box("item", <<k, v>>) : k \in Elems, v \in Elems}

Values ==
    {None, PyTrue, Int1, StrX}
    \cup {Box("list", s) : s \in SeqsUpTo(Elems, MaxLen)}
    \cup {Box("tuple", s) : s \in SeqsUpTo(Elems, MaxLen)}
    \cup {Box("set", s) : s \in SeqsUpTo(Elems, 1)}
    \cup {Box("dict", s) : s \in SeqsUpTo(Pairs, 1)}
    \cup {Box("Foo", <<v>>) : v \in Elems}
    \cup {Box("list", <<Box("tuple", s)>>) : s \in SeqsUpTo(Elems, 1)}


(***************************************************************************)
(* Type descriptors, as the compat layer presents them to core.py.  Every  *)
(* descriptor is a record of one shape:                                    *)
(*   k    the kind the compat predicates tell apart                        *)
(*   name the class name of a plain class, a dataclass, the origin of a    *)
(*        generic or the supertype of a NewType                            *)
(*   args what type_args returns                                           *)
(***************************************************************************)
Typ(k, name, args) == [k |-> k, name |-> name, args |-> args]

Plain(name) == Typ("plain", name, <<>>)
TInt == Plain("int")
TBool == Plain("bool")
TStr == Plain("str")
TNone == Plain("NoneType")
\* the Ellipsis object, the second argument of Tuple[T, ...]
TEllipsis == Typ("ellipsis", "", <<>>)
\* @dataclass class Foo: a: int
TFoo == Typ("dataclass", "Foo", <<TInt>>)
\* Optional[T] is Union[T, None]: its arguments are (T, NoneType)
TOpt(t) == Typ("opt", "", <<t, TNone>>)
TUnion(ts) == Typ("union", "", ts)
TList(t) == Typ("list", "", <<t>>)
TSet(t) == Typ("set", "", <<t>>)
TTuple(ts) == Typ("tuple", "", ts)
\* Tuple[T, ...]: its arguments are (T, Ellipsis)
TVarTuple(t) == Typ("tuple", "", <<t, TEllipsis>>)
TDict(kt, vt) == Typ("dict", "", <<kt, vt>>)
TGeneric(name, ts) == Typ("generic", name, ts)
TLiteral == Typ("literal", "", <<>>)
TNewType(name) == Typ("newtype", name, <<>>)

type_args(typ) == typ.args

is_dataclass(typ) == typ.k = "dataclass"
is_opt(typ) == typ.k = "opt"
is_union(typ) == typ.k = "union"
is_list(typ) == typ.k = "list"
is_set(typ) == typ.k = "set"
is_tuple(typ) == typ.k = "tuple"
is_dict(typ) == typ.k = "dict"
is_generic(typ) == typ.k = "generic"
is_literal(typ) == typ.k = "literal"
is_new_type_primitive(typ) == typ.k = "newtype"
is_ellipsis(typ) == typ.k = "ellipsis"

is_bare_list(typ) == is_list(typ) /\ Len(typ.args) = 0
is_bare_set(typ) == is_set(typ) /\ Len(typ.args) = 0
is_bare_tuple(typ) == is_tuple(typ) /\ Len(typ.args) = 0
is_bare_dict(typ) == is_dict(typ) /\ Len(typ.args) = 0
is_variable_tuple(typ) ==
    is_tuple(typ) /\ Len(typ.args) = 2 /\ is_ellipsis(typ.args[2])

\* the origin of a generic alias: here always the generic dataclass Foo
get_origin(typ) == TFoo

\* the element types the enumerated composite types are built from
ElemTypes == {TInt, TBool, TStr}

\* the declared element types of the enumerated fixed-arity tuple types
TupleElemTypes == {TInt, TStr}

FixedTuples ==
    {TTuple(ts) : ts \in UNION {[1..n -> TupleElemTypes] : n \in 1..MaxArity}}
VarTuples == {TVarTuple(t) : t \in ElemTypes}

\* the types nested one level inside Optional, List and Union
InnerTypes == ElemTypes \cup FixedTuples \cup VarTuples \cup {TFoo}

\* the variants of the enumerated unions
UnionArgs == ElemTypes \cup FixedTuples

Types ==
    ElemTypes \cup FixedTuples \cup VarTuples
    \cup {TNone, TEllipsis, TFoo, TLiteral, TNewType("int"), TGeneric("Foo", <<TInt>>)}
    \cup {Typ("list", "", <<>>), Typ("set", "", <<>>), Typ("tuple", "", <<>>),
          Typ("dict", "", <<>>)}
    \cup {TOpt(t) : t \in InnerTypes}
    \cup {TList(t) : t \in InnerTypes}
    \cup {TSet(t) : t \in ElemTypes}
    \cup {TDict(kt, vt) : kt \in ElemTypes, vt \in ElemTypes}
    \cup {TUnion(<<t1, t2>>) : t1 \in UnionArgs, t2 \in UnionArgs}


(***************************************************************************)
(* The program's state.                                                    *)
(***************************************************************************)
VARIABLES
    debug,      \* SETTINGS['debug']
    scopes,     \* class name -> the Scope stored in the class's __serde__
    obj,        \* the arguments of the last is_instance call ...
    typ,
    result,     \* ... and how it ended: "True", "False", or the exception
    matched,    \* the union variant at which is_union_instance returned True
    history,    \* class name -> the add_func calls that returned, oldest first
    raised,     \* the exception the last add_func call ended with, or "none"
    tagging,    \* the Tagging object last constructed
    tagging_checked, \* how check() on it ended, "unchecked" before the call
    classes,    \* GLOBAL_SCOPE.classes: class name -> wrapper dataclass
    wrappers,   \* the wrapper dataclasses made so far, in order of creation
    pc,         \* thread -> where it is in its registration of a union
    union_cls,  \* thread -> the union it is registering
    wrapper_dataclass,  \* thread -> add_union's local variable
    ret,        \* thread -> the wrapper its last registration returned
    lookup,     \* thread -> how its serialize_union / deserialize_union ended
    first,      \* class name -> the wrapper of its first finished registration
    stored,     \* the wrappers stored into classes, in order
    field,      \* the Field descriptor last derived or constructed
    skip_call,  \* the last call field.skip_if(v): v and how it ended
    conv_call,  \* the last call conv(field, case): case and how it ended
    coerced     \* the last call coerce(typ, obj): arguments, constructor calls, result

scope_vars == <<debug, scopes, history, raised>>
check_vars == <<obj, typ, result, matched>>
tagging_vars == <<tagging, tagging_checked>>
registry_vars ==
    <<classes, wrappers, pc, union_cls, wrapper_dataclass, ret, lookup, first, stored>>
field_vars == <<field, skip_call, conv_call>>
coerce_vars == <<coerced>>

\* name of the type check function in a Scope
TYPE_CHECK == "typecheck"
TO_DICT == "to_dict"

ClassNames == {"Foo"}
FuncNames == {TYPE_CHECK, TO_DICT}
\* what the body of a generated function does when it is called
Bodies == {"render_type_check", "pass", "raise"}

\* Source text of one function: the name its def statement binds, its body,
\* and whether black has reformatted the text.
Code(name, body) == [defines |-> name, body |-> body, fmt |-> FALSE]
Codes == {Code(n, b) : n \in FuncNames, b \in Bodies}
\* the callable that executing the text binds to its name
Callable(code) == [name |-> code.defines, body |-> code.body]

\* a class that has no __serde__ attribute: getattr(typ, SERDE_SCOPE, None)
NoScope == [exists |-> FALSE, funcs |-> <<>>, code |-> <<>>]
\* Scope(cls): funcs and code start as empty dicts
NewScope == [exists |-> TRUE, funcs |-> <<>>, code |-> <<>>]

\* d[k] = v on a Python dict
Put(d, k, v) == [x \in DOMAIN d \cup {k} |-> IF x = k THEN v ELSE d[x]]

(***************************************************************************)
(* is_instance and its helpers.  A call ends "True", "False" or with the   *)
(* name of the exception it raises.                                        *)
(***************************************************************************)
RECURSIVE is_instance(_, _)
RECURSIVE is_union_loop(_, _, _)
RECURSIVE is_variable_tuple_loop(_, _, _)
RECURSIVE is_tuple_loop(_, _, _)

Bool(b) == IF b THEN "True" ELSE "False"

\* isinstance(obj, cls) for a class: bool is a subclass of int
isinstance(o, name) == o.k = name \/ (name = "int" /\ o.k = "bool")

\* The function render_type_check generates for a dataclass, run on o:
\* "ok" when it returns, else the exception.  self.<field> needs o to have
\* the field; enum and literal fields are not checked.
render_type_check(cls, o) ==
    IF o.k # cls.name THEN "AttributeError"
    ELSE IF \A i \in 1..Len(cls.args) :
                LET ft == cls.args[i] IN
                \/ ~(\/ is_set(ft) \/ is_list(ft) \/ is_dict(ft) \/ is_tuple(ft)
                      \/ is_opt(ft) \/ ft \in {TInt, TBool, TStr})
                \/ is_instance(o.items[i], ft) = "True"
         THEN "ok"
         ELSE "SerdeError"

\* calling scope.funcs[name](o): the outcome of the callable's body
call_func(f, cls, o) ==
    CASE f.body = "render_type_check" -> render_type_check(cls, o)
      [] f.body = "raise" -> "Exception"
      [] OTHER -> "ok"

\* a bug: the test for None is missing
is_opt_instance_without_none(o, t) == is_instance(o, type_args(t)[1])

is_opt_instance(o, t) ==
    IF o = None THEN "True"
    ELSE is_instance(o, type_args(t)[1])

\* for arg in type_args(typ): if is_instance(obj, arg): return True
is_union_loop(o, args, i) ==
    IF i > Len(args) THEN [res |-> "False", at |-> 0]
    ELSE LET r == is_instance(o, args[i]) IN
         IF r = "True" THEN [res |-> "True", at |-> i]
         ELSE IF r = "False" THEN is_union_loop(o, args, i + 1)
         ELSE [res |-> r, at |-> 0]

is_union_instance(o, t) == is_union_loop(o, type_args(t), 1).res

\* a bug: every element is checked, not only the first
is_list_instance_full_scan(o, t) ==
    IF ~isinstance(o, "list") THEN "False"
    ELSE IF Len(o.items) = 0 \/ is_bare_list(t) THEN "True"
    ELSE Bool(\A i \in 1..Len(o.items) :
                 is_instance(o.items[i], type_args(t)[1]) = "True")

is_list_instance(o, t) ==
    IF ~isinstance(o, "list") THEN "False"
    ELSE IF Len(o.items) = 0 \/ is_bare_list(t) THEN "True"
    ELSE is_instance(o.items[1], type_args(t)[1])

is_set_instance(o, t) ==
    IF ~isinstance(o, "set") THEN "False"
    ELSE IF Len(o.items) = 0 \/ is_bare_set(t) THEN "True"
    ELSE is_instance(o.items[1], type_args(t)[1])

\* for v in obj: if not is_instance(v, arg): return False
is_variable_tuple_loop(o, arg, i) ==
    IF i > Len(o.items) THEN "pass"
    ELSE LET r == is_instance(o.items[i], arg) IN
         IF r = "True" THEN is_variable_tuple_loop(o, arg, i + 1)
         ELSE r

\* for i, arg in enumerate(type_args(typ)): if not is_instance(obj[i], arg): ...
is_tuple_loop(o, args, i) ==
    IF i > Len(args) THEN "True"
    ELSE IF i > Len(o.items) THEN "IndexError"
    ELSE LET r == is_instance(o.items[i], args[i]) IN
         IF r = "True" THEN is_tuple_loop(o, args, i + 1)
         ELSE r

is_tuple_instance(o, t) ==
    IF ~isinstance(o, "tuple") THEN "False"
    ELSE LET v == IF is_variable_tuple(t)
                  THEN is_variable_tuple_loop(o, type_args(t)[1], 1)
                  ELSE "pass"
         IN IF v # "pass" THEN v
            ELSE IF Len(o.items) = 0 \/ is_bare_tuple(t) THEN "True"
            ELSE is_tuple_loop(o, type_args(t), 1)

is_dict_instance(o, t) ==
    IF ~isinstance(o, "dict") THEN "False"
    ELSE IF Len(o.items) = 0 \/ is_bare_dict(t) THEN "True"
    ELSE LET k == is_instance(o.items[1].items[1], type_args(t)[1]) IN
         IF k = "True" THEN is_instance(o.items[1].items[2], type_args(t)[2])
         ELSE k

is_generic_instance(o, t) == is_instance(o, get_origin(t))

\* the dataclass branch of is_instance
is_dataclass_instance(o, t) ==
    LET serde_scope == scopes[t.name]
        checked ==
            IF ~serde_scope.exists THEN "ok"
            ELSE IF TYPE_CHECK \notin DOMAIN serde_scope.funcs THEN "KeyError"
            ELSE call_func(serde_scope.funcs[TYPE_CHECK], t, o)
    IN IF checked # "ok" THEN "False" ELSE Bool(isinstance(o, t.name))

is_instance(o, t) ==
    IF is_dataclass(t) THEN is_dataclass_instance(o, t)
    ELSE IF is_opt(t) THEN is_opt_instance(o, t)
    ELSE IF is_union(t) THEN is_union_instance(o, t)
    ELSE IF is_list(t) THEN is_list_instance(o, t)
    ELSE IF is_set(t) THEN is_set_instance(o, t)
    ELSE IF is_tuple(t) THEN is_tuple_instance(o, t)
    ELSE IF is_dict(t) THEN is_dict_instance(o, t)
    ELSE IF is_generic(t) THEN is_generic_instance(o, t)
    ELSE IF is_literal(t) THEN "True"
    ELSE IF is_new_type_primitive(t) THEN Bool(isinstance(o, t.name))
    ELSE IF is_ellipsis(t) THEN "True"
    ELSE Bool(isinstance(o, t.name))


(***************************************************************************)
(* init, gen and add_func.                                                 *)
(***************************************************************************)
\* longest recorded sequence of add_func calls on one scope
MaxCalls == 3

\* black's format_str: the same function, laid out by black
format_str(code) == [code EXCEPT !.fmt = TRUE]

\* What gen(code, globals) can return: with debug on, the text black made of
\* it, or the text itself when black is missing or fails (the exception is
\* swallowed); with debug off the text itself.
gen_code(code) == IF debug THEN {format_str(code), code} ELSE {code}

\* exec(code, globals): globals afterwards
exec(code, globals) == Put(globals, code.defines, Callable(code))

\* a bug: a name that is already registered keeps its callable
add_func_scope_keeps_first(serde_scope, func_name, code, globals) ==
    [serde_scope EXCEPT
        !.funcs = IF func_name \in DOMAIN @ THEN @
                  ELSE Put(@, func_name, globals[func_name]),
        !.code = IF debug THEN Put(@, func_name, code) ELSE @]

\* what add_func does to a Scope when it returns: funcs, and code under debug
add_func_scope(serde_scope, func_name, code, globals) ==
    [serde_scope EXCEPT
        !.funcs = Put(@, func_name, globals[func_name]),
        !.code = IF debug THEN Put(@, func_name, code) ELSE @]

init(d) ==
    /\ debug' = d
    /\ UNCHANGED <<scopes, history, raised, check_vars, tagging_vars, field_vars, coerce_vars, registry_vars>>

\* the decorators give a class its Scope when they first process it
new_scope(c) ==
    /\ result = "idle"
    /\ ~scopes[c].exists
    /\ scopes' = [scopes EXCEPT ![c] = NewScope]
    /\ UNCHANGED <<debug, history, raised, check_vars, tagging_vars, field_vars, coerce_vars, registry_vars>>

add_func(c, func_name, func_code, globals) ==
    /\ result = "idle"
    /\ scopes[c].exists
    /\ Len(history[c]) < MaxCalls
    /\ \E code \in gen_code(func_code) :
         LET g == exec(func_code, globals) IN
         IF func_name \in DOMAIN g
         THEN /\ scopes' = [scopes EXCEPT
                     ![c] = add_func_scope(@, func_name, code, g)]
              /\ history' = [history EXCEPT
                     ![c] = Append(@, [name |-> func_name, code |-> func_code])]
              /\ raised' = "none"
         ELSE /\ raised' = "KeyError"
              /\ UNCHANGED <<scopes, history>>
    /\ UNCHANGED <<debug, check_vars, tagging_vars, field_vars, coerce_vars, registry_vars>>

\* the serialize decorator registers the type check function of a class once
register_type_check(c) ==
    /\ TYPE_CHECK \notin DOMAIN scopes[c].funcs
    /\ add_func(c, TYPE_CHECK, Code(TYPE_CHECK, "render_type_check"), <<>>)

(***************************************************************************)
(* A call of is_instance.                                                  *)
(***************************************************************************)
check ==
    /\ result = "idle"
    /\ \E o \in Values, t \in Types :
         /\ obj' = o
         /\ typ' = t
         /\ result' = is_instance(o, t)
         /\ matched' = IF is_union(t) THEN is_union_loop(o, type_args(t), 1).at
                        ELSE 0
    /\ UNCHANGED <<scope_vars, tagging_vars, field_vars, coerce_vars, registry_vars>>

(***************************************************************************)
(* Tagging.  tag and content are Optional[str]: None, or a string that     *)
(* may be empty.                                                           *)
(***************************************************************************)
NoneStr == [some |-> FALSE, s |-> ""]
Str(s) == [some |-> TRUE, s |-> s]
OptStrs == {NoneStr, Str(""), Str("type"), Str("content")}
Kinds == {"External", "Internal", "Adjacent", "Untagged"}

\* the dataclass __init__ of Tagging: it stores its arguments
Tagging(tag, content, kind) == [tag |-> tag, content |-> content, kind |-> kind]
ExternalTagging == Tagging(NoneStr, NoneStr, "External")
InternalTagging(tag, content) == Tagging(tag, content, "Internal")
AdjacentTagging(tag, content) == Tagging(tag, content, "Adjacent")
Untagged == Tagging(NoneStr, NoneStr, "Untagged")
DefaultTagging == ExternalTagging

is_internal(self) == self.kind = "Internal"
is_adjacent(self) == self.kind = "Adjacent"

\* a bug: Adjacent is refused only when both tag and content are missing
Tagging_check_both_missing(self) ==
    IF is_internal(self) /\ self.tag = NoneStr THEN "SerdeError"
    ELSE IF is_adjacent(self) /\ (self.tag = NoneStr /\ self.content = NoneStr)
    THEN "SerdeError"
    ELSE "ok"

\* a bug: Internal is never refused
Tagging_check_internal_unchecked(self) ==
    IF is_adjacent(self) /\ (self.tag = NoneStr \/ self.content = NoneStr)
    THEN "SerdeError"
    ELSE "ok"

\* Tagging.check: "ok" when it returns, else the exception it raises
Tagging_check(self) ==
    IF is_internal(self) /\ self.tag = NoneStr THEN "SerdeError"
    ELSE IF is_adjacent(self) /\ (self.tag = NoneStr \/ self.content = NoneStr)
    THEN "SerdeError"
    ELSE "ok"

\* a Tagging object is constructed: by Tagging(...), or by the partials
\* InternalTagging(...) and AdjacentTagging(...), which fix the kind
construct(t) ==
    /\ tagging' = t
    /\ tagging_checked' = "unchecked"
    /\ UNCHANGED <<scope_vars, check_vars, registry_vars, field_vars, coerce_vars>>

\* tagging.check() is called on the object
check_tagging ==
    /\ tagging_checked' = Tagging_check(tagging)
    /\ UNCHANGED <<tagging, scope_vars, check_vars, registry_vars, field_vars, coerce_vars>>

(***************************************************************************)
(* Names of generated functions and classes.  A name is the sequence of    *)
(* its characters, so that the substitution in union_func_name acts on it. *)
(***************************************************************************)
AlphaNum ==
    {"a", "b", "c", "d", "e", "f", "g", "h", "i", "j", "k", "l", "m", "n", "o",
     "p", "q", "r", "s", "t", "u", "v", "w", "x", "y", "z",
     "A", "B", "C", "D", "E", "F", "G", "H", "I", "J", "K", "L", "M", "N", "O",
     "P", "Q", "R", "S", "T", "U", "V", "W", "X", "Y", "Z",
     "0", "1", "2", "3", "4", "5", "6", "7", "8", "9"}

GLOBAL_PREFIX == <<"g", "l", "o", "b", "a", "l">>
UNION_SE_PREFIX == <<"u", "n", "i", "o", "n", "_", "s", "e">>
UNION_DE_PREFIX == <<"u", "n", "i", "o", "n", "_", "d", "e">>

\* the characters of a class name
NameChars(name) ==
    CASE name = "int" -> <<"i", "n", "t">>
      [] name = "str" -> <<"s", "t", "r">>
      [] name = "bool" -> <<"b", "o", "o", "l">>
      [] name = "NoneType" -> <<"N", "o", "n", "e", "T", "y", "p", "e">>
      [] name = "Foo" -> <<"F", "o", "o">>
      [] name = "List_str_" -> <<"L", "i", "s", "t", "_", "s", "t", "r", "_">>

\* typename(t): a class by its name, List[T] as "List[" typename(T) "]"
RECURSIVE typename(_)
typename(t) ==
    IF is_list(t) /\ ~is_bare_list(t)
    THEN <<"L", "i", "s", "t", "[">> \o typename(type_args(t)[1]) \o <<"]">>
    ELSE NameChars(t.name)

\* '_'.join(names)
RECURSIVE join(_)
join(names) ==
    IF Len(names) = 0 THEN <<>>
    ELSE IF Len(names) = 1 THEN names[1]
    ELSE names[1] \o <<"_">> \o join(Tail(names))

\* a bug: the name is not sanitized
sub_nothing(s) == s

\* re.sub(r"[^A-Za-z0-9]", "_", s)
sub(s) == [i \in 1..Len(s) |-> IF s[i] \in AlphaNum THEN s[i] ELSE "_"]

union_func_name(prefix, union_args) ==
    sub(prefix \o <<"_">> \o join([i \in 1..Len(union_args) |-> typename(union_args[i])]))

(***************************************************************************)
(* The GlobalScope registry of union wrapper classes.                      *)
(***************************************************************************)
\* number of threads that register unions
NThreads == 2
\* most wrapper dataclasses the threads make
MaxWrappers == 2

Threads == 1..NThreads

\* @dataclass class List_str_: a: int
TListStr_ == Typ("dataclass", "List_str_", <<TInt>>)

\* the unions the threads register
RegUnions ==
    {TUnion(<<TInt, TStr>>), TUnion(<<TStr, TInt>>),
     TUnion(<<TList(TStr), TInt>>), TUnion(<<TListStr_, TInt>>)}

\* the unions that unsynchronized threads register
RacedUnions == {TUnion(<<TInt, TStr>>), TUnion(<<TStr, TInt>>)}

\* what union_cls holds while a thread registers nothing
NoUnion == TUnion(<<>>)

\* the functions serialize() and deserialize() put into the Scope of the
\* wrapper of a union
se_funcs(cls) == {union_func_name(UNION_SE_PREFIX, type_args(cls))}
de_funcs(cls) == {union_func_name(UNION_DE_PREFIX, type_args(cls))}

\* a bug: get_union looks the wrapper up under the name of the serialize
\* function, not under the class name add_union stores it under
get_union_other_name(cls) ==
    LET class_name == union_func_name(UNION_SE_PREFIX, type_args(cls)) IN
    IF class_name \in DOMAIN classes THEN classes[class_name] ELSE 0

\* GlobalScope.get_union: the wrapper, or 0 for None
get_union(cls) ==
    LET class_name == union_func_name(GLOBAL_PREFIX, type_args(cls)) IN
    IF class_name \in DOMAIN classes THEN classes[class_name] ELSE 0

\* a bug: add_union stores the wrapper before serde() has run on it
add_union_steps_store_first == <<"make", "store", "serialize", "deserialize">>

\* the statements of GlobalScope.add_union, in order: make_dataclass, the
\* two halves of serde(wrapper_dataclass), the store into classes
add_union_steps == <<"make", "serialize", "deserialize", "store">>

\* where a thread is after the add_union statement p
after(p) ==
    LET i == CHOOSE j \in 1..Len(add_union_steps) : add_union_steps[j] = p IN
    IF i = Len(add_union_steps) THEN "done" ELSE add_union_steps[i + 1]

\* a registration returns the wrapper w to thread t
returned(t, w) ==
    LET class_name == union_func_name(GLOBAL_PREFIX, type_args(union_cls[t])) IN
    /\ ret' = [ret EXCEPT ![t] = w]
    /\ first' = IF class_name \in DOMAIN first THEN first
                ELSE Put(first, class_name, w)

\* a thread starts to register a union: get_union first
call(t, cls) ==
    /\ pc[t] = "idle"
    /\ pc' = [pc EXCEPT ![t] = "get"]
    /\ union_cls' = [union_cls EXCEPT ![t] = cls]
    /\ UNCHANGED <<classes, wrappers, wrapper_dataclass, ret, lookup, first, stored>>
    /\ UNCHANGED <<scope_vars, check_vars, tagging_vars, field_vars, coerce_vars>>

\* the same, when no other thread is in the middle of a registration
call_alone(t, cls) ==
    /\ \A u \in Threads : pc[u] \in {"idle", "done", "used"}
    /\ call(t, cls)

\* the check of check-then-create: add_union only when get_union finds nothing
check_then_create(t) ==
    /\ pc[t] = "get"
    /\ IF get_union(union_cls[t]) # 0
       THEN /\ pc' = [pc EXCEPT ![t] = "done"]
            /\ returned(t, get_union(union_cls[t]))
       ELSE /\ pc' = [pc EXCEPT ![t] = add_union_steps[1]]
            /\ UNCHANGED <<ret, first>>
    /\ UNCHANGED <<classes, wrappers, union_cls, wrapper_dataclass, lookup, stored>>
    /\ UNCHANGED <<scope_vars, check_vars, tagging_vars, field_vars, coerce_vars>>

\* a thread has done the add_union statement p: it goes on to the next, and
\* after the last add_union returns wrapper_dataclass (w, once it is made)
step(t, p, w) ==
    /\ pc' = [pc EXCEPT ![t] = after(p)]
    /\ IF after(p) = "done" THEN returned(t, w) ELSE UNCHANGED <<ret, first>>

\* add_union: dataclasses.make_dataclass(class_name, [("v", cls)])
add_union_make(t) ==
    /\ pc[t] = "make"
    /\ Len(wrappers) < MaxWrappers
    /\ wrappers' = Append(wrappers, [cls |-> union_cls[t], funcs |-> {}])
    /\ wrapper_dataclass' = [wrapper_dataclass EXCEPT ![t] = Len(wrappers) + 1]
    /\ step(t, "make", Len(wrappers) + 1)
    /\ UNCHANGED <<classes, union_cls, lookup, stored>>
    /\ UNCHANGED <<scope_vars, check_vars, tagging_vars, field_vars, coerce_vars>>

\* add_union: serde(wrapper_dataclass), first serialize(cls) ...
add_union_serialize(t) ==
    /\ pc[t] = "serialize"
    /\ wrappers' = [wrappers EXCEPT
           ![wrapper_dataclass[t]].funcs = @ \cup se_funcs(union_cls[t])]
    /\ step(t, "serialize", wrapper_dataclass[t])
    /\ UNCHANGED <<classes, union_cls, wrapper_dataclass, lookup, stored>>
    /\ UNCHANGED <<scope_vars, check_vars, tagging_vars, field_vars, coerce_vars>>

\* ... then deserialize(cls)
add_union_deserialize(t) ==
    /\ pc[t] = "deserialize"
    /\ wrappers' = [wrappers EXCEPT
           ![wrapper_dataclass[t]].funcs = @ \cup de_funcs(union_cls[t])]
    /\ step(t, "deserialize", wrapper_dataclass[t])
    /\ UNCHANGED <<classes, union_cls, wrapper_dataclass, lookup, stored>>
    /\ UNCHANGED <<scope_vars, check_vars, tagging_vars, field_vars, coerce_vars>>

\* add_union: self.classes[class_name] = wrapper_dataclass
add_union_store(t) ==
    /\ pc[t] = "store"
    /\ classes' = Put(classes, union_func_name(GLOBAL_PREFIX, type_args(union_cls[t])),
                      wrapper_dataclass[t])
    /\ stored' = Append(stored, wrapper_dataclass[t])
    /\ step(t, "store", wrapper_dataclass[t])
    /\ UNCHANGED <<wrappers, union_cls, wrapper_dataclass, lookup>>
    /\ UNCHANGED <<scope_vars, check_vars, tagging_vars, field_vars, coerce_vars>>

\* the caller has its wrapper: the call's variables are gone
finish(t) ==
    /\ pc[t] \in {"done", "used"}
    /\ pc' = [pc EXCEPT ![t] = "idle"]
    /\ union_cls' = [union_cls EXCEPT ![t] = NoUnion]
    /\ wrapper_dataclass' = [wrapper_dataclass EXCEPT ![t] = 0]
    /\ ret' = [ret EXCEPT ![t] = 0]
    /\ lookup' = [lookup EXCEPT ![t] = "none"]
    /\ UNCHANGED <<classes, wrappers, first, stored>>
    /\ UNCHANGED <<scope_vars, check_vars, tagging_vars, field_vars, coerce_vars>>

\* the lookups of serialize_union and deserialize_union: getattr on the
\* wrapper get_union returned, then funcs[func_name]
resolve_union(cls, prefix) ==
    LET w == get_union(cls)
        func_name == union_func_name(prefix, type_args(cls))
    IN IF w = 0 THEN "AttributeError"
       ELSE IF func_name \notin wrappers[w].funcs THEN "KeyError"
       ELSE "ok"

\* a thread that has registered its union serializes a value of it
serialize_union(t) ==
    /\ pc[t] = "done"
    /\ pc' = [pc EXCEPT ![t] = "used"]
    /\ lookup' = [lookup EXCEPT ![t] = resolve_union(union_cls[t], UNION_SE_PREFIX)]
    /\ UNCHANGED <<classes, wrappers, union_cls, wrapper_dataclass, ret, first, stored>>
    /\ UNCHANGED <<scope_vars, check_vars, tagging_vars, field_vars, coerce_vars>>

\* a thread that has registered its union deserializes a value of it
deserialize_union(t) ==
    /\ pc[t] = "done"
    /\ pc' = [pc EXCEPT ![t] = "used"]
    /\ lookup' = [lookup EXCEPT ![t] = resolve_union(union_cls[t], UNION_DE_PREFIX)]
    /\ UNCHANGED <<classes, wrappers, union_cls, wrapper_dataclass, ret, first, stored>>
    /\ UNCHANGED <<scope_vars, check_vars, tagging_vars, field_vars, coerce_vars>>

(***************************************************************************)
(* Field descriptors: Field.from_dataclass and the skip predicates.        *)
(***************************************************************************)
\* Optional[str] of a field name: None, or the characters of the string
NoName == [some |-> FALSE, s |-> <<>>]
Name(s) == [some |-> TRUE, s |-> s]

\* the strings fields are named, renamed and aliased with
NameId == <<"i", "d">>
NameUserId == <<"u", "s", "e", "r", "_", "i", "d">>
NameID == <<"I", "D">>
NameUid == <<"u", "i", "d">>

\* dataclasses.MISSING, the default of a field that declares none
MISSING == Atom("_MISSING_TYPE", 0)
Int0 == Atom("int", 0)
\* the empty string
StrEmpty == Atom("str", 0)

\* bool(v): None, 0, False, "" and empty containers are false
py_bool(v) ==
    CASE v.k = "NoneType" -> FALSE
      [] v.k \in {"int", "bool", "str"} -> v.a # 0
      [] v.k \in {"list", "tuple", "set", "dict"} -> Len(v.items) > 0
      [] OTHER -> TRUE

\* v == w: int and bool compare by number, everything else by class and content
py_eq(v, w) ==
    IF v.k \in {"int", "bool"} /\ w.k \in {"int", "bool"} THEN v.a = w.a
    ELSE v = w

\* A callable, by the function it is and, for functools.partial, the
\* keyword it binds: skip_if_false, skip_if_default with or without default
\* bound, or a predicate the user wrote (is_none: lambda v: v is None).
Fn(fn) == [fn |-> fn, bound |-> FALSE, default |-> None]
partial(f, default) == [fn |-> f.fn, bound |-> TRUE, default |-> default]
skip_if_false == Fn("skip_if_false")
skip_if_default == Fn("skip_if_default")
is_none == Fn("is_none")

\* calling a callable on v: "True" or "False"
call_inner(f, v) ==
    CASE f.fn = "skip_if_false" -> Bool(~py_bool(v))
      [] f.fn = "skip_if_default" ->
            Bool(py_eq(v, IF f.bound THEN f.default ELSE None))
      [] f.fn = "is_none" -> Bool(v = None)

\* Func(inner, mangeld), and None where an Optional[Func] holds none
Func(inner, mangeld) == [some |-> TRUE, inner |-> inner, mangeld |-> mangeld]
NoFunc == [some |-> FALSE, inner |-> Fn("none"), mangeld |-> <<>>]

\* what a metadata key holds: nothing (get returns None), a callable, or
\* another object with its truth value
Absent == [kind |-> "absent", truthy |-> FALSE, fn |-> Fn("none")]
Flag(b) == [kind |-> "bool", truthy |-> b, fn |-> Fn("none")]
Pred(f) == [kind |-> "callable", truthy |-> TRUE, fn |-> f]
callable(m) == m.kind = "callable"

\* the purposes names are mangled with
SKIP_IF == <<"s", "k", "i", "p", "_", "i", "f">>
SKIP_IF_FALSE == SKIP_IF \o <<"_", "f", "a", "l", "s", "e">>
SKIP_IF_DEFAULT == SKIP_IF \o <<"_", "d", "e", "f", "a", "u", "l", "t">>

\* Field.mangle: f'{field.name}_{name}'
mangle(f, name) == f.name.s \o <<"_">> \o name

\* a bug: skip-on-false is preferred to the explicit predicate
select_skip_if_false_first(skip_if_, skip_if_false_func, skip_if_default_func) ==
    IF skip_if_false_func.some THEN skip_if_false_func
    ELSE IF skip_if_.some THEN skip_if_
    ELSE skip_if_default_func

\* skip_if or skip_if_false_func or skip_if_default_func: a Func is true
select_skip_if(skip_if_, skip_if_false_func, skip_if_default_func) ==
    IF skip_if_.some THEN skip_if_
    ELSE IF skip_if_false_func.some THEN skip_if_false_func
    ELSE skip_if_default_func

\* a dataclasses.Field as from_dataclass reads it
RawField(name, default, metadata) ==
    [name |-> name, default |-> default, metadata |-> metadata]

\* the Field object the constructor Field(...) makes
Field(name, default, metadata, case, alias, rename, skip_if_) ==
    [name |-> name, default |-> default, metadata |-> metadata, case |-> case,
     alias |-> alias, rename |-> rename, skip_if |-> skip_if_]

\* Field.from_dataclass(f)
Field_from_dataclass(f) ==
    LET md == f.metadata
        skip_if_false_func ==
            IF md.serde_skip_if_false.truthy
            THEN Func(skip_if_false, mangle(f, SKIP_IF_FALSE))
            ELSE NoFunc
        skip_if_default_func ==
            IF md.serde_skip_if_default.truthy
            THEN Func(partial(skip_if_default, f.default), mangle(f, SKIP_IF_DEFAULT))
            ELSE NoFunc
        skip_if_ ==
            IF md.serde_skip_if.truthy /\ callable(md.serde_skip_if)
            THEN Func(md.serde_skip_if.fn, mangle(f, SKIP_IF))
            ELSE NoFunc
    IN Field(f.name, f.default, md, NoName, md.serde_alias, md.serde_rename,
             select_skip_if(skip_if_, skip_if_false_func, skip_if_default_func))

\* the metadata of the enumerated fields
Flags == {Absent, Flag(TRUE), Flag(FALSE)}
Metadatas ==
    [serde_skip_if_false : Flags,
     serde_skip_if_default : Flags,
     serde_skip_if : {Absent, Pred(is_none), Flag(TRUE)},
     serde_rename : {NoName, Name(<<>>), Name(NameID)},
     serde_alias : {<<>>, <<NameUid>>}]
Defaults == {MISSING, None, Int0, Int1, StrX}
RawFields ==
    {RawField(Name(n), d, md) :
        n \in {NameId, NameUserId}, d \in Defaults, md \in Metadatas}

\* the values a skip predicate is called on
SkipValues == {None, Int0, Int1, PyTrue, StrX, StrEmpty, Box("list", <<>>)}

NoCall == [done |-> FALSE, arg |-> None, res |-> "none"]
NoConv == [done |-> FALSE, case |-> NoName, raised |-> "none", name |-> NoName]

\* the descriptor of the field id: int, which configures nothing
PlainField ==
    Field(Name(NameId), MISSING,
          [serde_skip_if_false |-> Absent, serde_skip_if_default |-> Absent,
           serde_skip_if |-> Absent, serde_rename |-> NoName, serde_alias |-> <<>>],
          NoName, <<>>, NoName, NoFunc)

\* no descriptor is in use: the next one can be derived or made
field_idle == field = PlainField /\ ~skip_call.done /\ ~conv_call.done

\* fields(field_cls, cls) derives the descriptor of a field of the class
from_dataclass ==
    /\ field_idle
    /\ \E f \in RawFields : field' = Field_from_dataclass(f)
    /\ skip_call' = NoCall
    /\ conv_call' = NoConv
    /\ UNCHANGED <<scope_vars, check_vars, tagging_vars, registry_vars, coerce_vars>>

\* the generated code calls field.skip_if(v): Func.__call__
call_skip_if(v) ==
    /\ field.skip_if.some
    /\ ~skip_call.done
    /\ skip_call' = [done |-> TRUE, arg |-> v, res |-> call_inner(field.skip_if.inner, v)]
    /\ UNCHANGED conv_call
    /\ UNCHANGED <<field, scope_vars, check_vars, tagging_vars, registry_vars,
                   coerce_vars>>

(***************************************************************************)
(* conv: the name a field is written under.                                *)
(***************************************************************************)
LowerLetters ==
    <<"a", "b", "c", "d", "e", "f", "g", "h", "i", "j", "k", "l", "m", "n", "o",
      "p", "q", "r", "s", "t", "u", "v", "w", "x", "y", "z">>
UpperLetters ==
    <<"A", "B", "C", "D", "E", "F", "G", "H", "I", "J", "K", "L", "M", "N", "O",
      "P", "Q", "R", "S", "T", "U", "V", "W", "X", "Y", "Z">>
IndexIn(letters, c) == CHOOSE i \in 1..Len(letters) : letters[i] = c
IsIn(letters, c) == \E i \in 1..Len(letters) : letters[i] = c
uppercase(c) == IF IsIn(LowerLetters, c) THEN UpperLetters[IndexIn(LowerLetters, c)] ELSE c
lowercase(c) == IF IsIn(UpperLetters, c) THEN LowerLetters[IndexIn(UpperLetters, c)] ELSE c

\* re.sub(r"[\-_\.\s]([a-z0-9])", upper of group 1, s)
RECURSIVE camel_tail(_)
camel_tail(s) ==
    IF Len(s) = 0 THEN <<>>
    ELSE IF Len(s) >= 2 /\ s[1] = "_"
            /\ (IsIn(LowerLetters, s[2]) \/ s[2] \in {"0", "1", "2", "3", "4", "5", "6", "7", "8", "9"})
         THEN <<uppercase(s[2])>> \o camel_tail(Tail(Tail(s)))
         ELSE <<s[1]>> \o camel_tail(Tail(s))

\* casefy.camelcase: user_id -> userId
camelcase(s) ==
    IF Len(s) = 0 THEN <<>>
    ELSE <<lowercase(s[1])>> \o camel_tail(Tail(s))

CAMELCASE == <<"c", "a", "m", "e", "l", "c", "a", "s", "e">>
NOCASE == <<"n", "o", "c", "a", "s", "e">>

\* getattr(casefy, case, None): whether casefy has a function of that name
has_casef(case) == case = CAMELCASE
casef(case, s) == camelcase(s)

\* the truth value of an Optional[str]: None and "" are false
truthy(n) == n.some /\ Len(n.s) > 0

ConvReturn(name) == [done |-> TRUE, raised |-> "none", name |-> name]
ConvRaise(e) == [done |-> TRUE, raised |-> e, name |-> NoName]

\* a bug: the case policy is applied to the renamed name too
conv_case_after_rename(f, case) ==
    IF truthy(case) /\ ~has_casef(case.s) THEN ConvRaise("SerdeError")
    ELSE LET name == IF truthy(f.rename) THEN f.rename ELSE f.name
             cased == IF truthy(case) /\ name.some
                      THEN Name(casef(case.s, name.s)) ELSE name
         IN IF ~cased.some THEN ConvRaise("SerdeError") ELSE ConvReturn(cased)

\* conv(f, case)
conv(f, case) ==
    IF truthy(case) /\ ~has_casef(case.s) THEN ConvRaise("SerdeError")
    ELSE LET cased == IF truthy(case) THEN Name(casef(case.s, f.name.s)) ELSE f.name
             name == IF truthy(f.rename) THEN f.rename ELSE cased
         IN IF ~name.some THEN ConvRaise("SerdeError") ELSE ConvReturn(name)

Cases == {NoName, Name(<<>>), Name(CAMELCASE), Name(NOCASE)}

\* Field(typ, name, case=..., alias=..., rename=...): a descriptor made
\* directly, whose name may be None
construct_field ==
    /\ field_idle
    /\ \E name \in {NoName, Name(NameUserId)}, case \in Cases,
          alias \in {<<>>, <<NameUid>>}, rename \in {NoName, Name(<<>>), Name(NameID)} :
         field' = Field(name, MISSING, PlainField.metadata, case, alias, rename, NoFunc)
    /\ skip_call' = NoCall
    /\ conv_call' = NoConv
    /\ UNCHANGED <<scope_vars, check_vars, tagging_vars, registry_vars, coerce_vars>>

\* the caller has used the descriptor and what it was called for
field_return ==
    /\ skip_call.done \/ conv_call.done
    /\ field' = PlainField
    /\ skip_call' = NoCall
    /\ conv_call' = NoConv
    /\ UNCHANGED <<scope_vars, check_vars, tagging_vars, registry_vars, coerce_vars>>

\* Field.conv_name(case): conv(self, case or self.case).  A field without a
\* name is converted under no case policy only: what casefy makes of None
\* is casefy's business.
conv_name(case) ==
    LET c == IF truthy(case) THEN case ELSE field.case IN
    /\ ~skip_call.done /\ ~conv_call.done
    /\ field.name.some \/ ~truthy(c)
    /\ conv_call' = [conv(field, c) EXCEPT !.done = TRUE] @@ [case |-> c]
    /\ UNCHANGED skip_call
    /\ UNCHANGED <<field, scope_vars, check_vars, tagging_vars, registry_vars,
                   coerce_vars>>

(***************************************************************************)
(* coerce.                                                                 *)
(***************************************************************************)
Returned(v) == [raised |-> "none", value |-> v]
Raised(e) == [raised |-> e, value |-> None]

\* typ(obj): calling the class.  int() takes numbers, and no string here is
\* a numeral; bool() takes anything; the dataclass Foo takes its one field.
construct_value(t, o) ==
    CASE t = TInt ->
            IF o.k \in {"int", "bool"} THEN Returned(Atom("int", o.a))
            ELSE IF o.k = "str" THEN Raised("ValueError")
            ELSE Raised("TypeError")
      [] t = TBool -> Returned(Atom("bool", IF py_bool(o) THEN 1 ELSE 0))
      [] t = TFoo -> Returned(Box("Foo", <<o>>))

is_coercible(t, o) == IF o = None THEN FALSE ELSE TRUE

\* coerce(typ, obj): whether the constructor ran, and how the call ended
coerce_call(t, o) ==
    IF is_coercible(t, o)
    THEN [constructed |-> TRUE, out |-> construct_value(t, o)]
    ELSE [constructed |-> FALSE, out |-> Returned(o)]

CoerceTypes == {TInt, TBool, TFoo}
NoCoerce ==
    [done |-> FALSE, typ |-> TNone, obj |-> None, constructed |-> FALSE,
     out |-> Returned(None)]

coerce(t, o) ==
    /\ coerced' = [done |-> TRUE, typ |-> t, obj |-> o,
                   constructed |-> coerce_call(t, o).constructed,
                   out |-> coerce_call(t, o).out]
    /\ UNCHANGED <<scope_vars, check_vars, tagging_vars, registry_vars, field_vars>>

\* the caller has used the result: no call is in progress
check_return ==
    /\ result # "idle"
    /\ obj' = None
    /\ typ' = TNone
    /\ result' = "idle"
    /\ matched' = 0
    /\ UNCHANGED <<scope_vars, tagging_vars, field_vars, coerce_vars, registry_vars>>

(***************************************************************************)
(* The specifications.                                                     *)
(***************************************************************************)
vars == <<scope_vars, check_vars, tagging_vars, registry_vars, field_vars, coerce_vars>>

Init ==
    /\ debug = FALSE
    /\ scopes = [c \in ClassNames |-> NoScope]
    /\ obj = None
    /\ typ = TNone
    /\ result = "idle"
    /\ matched = 0
    /\ history = [c \in ClassNames |-> <<>>]
    /\ raised = "none"
    /\ tagging = DefaultTagging
    /\ tagging_checked = "unchecked"
    /\ classes = <<>>
    /\ wrappers = <<>>
    /\ pc = [t \in Threads |-> "idle"]
    /\ union_cls = [t \in Threads |-> NoUnion]
    /\ wrapper_dataclass = [t \in Threads |-> 0]
    /\ ret = [t \in Threads |-> 0]
    /\ lookup = [t \in Threads |-> "none"]
    /\ first = <<>>
    /\ stored = <<>>
    /\ field = PlainField
    /\ skip_call = NoCall
    /\ conv_call = NoConv
    /\ coerced = NoCoerce

\* what the caller's globals hold before the call: nothing, or a helper
Globals == {<<>>, [n \in {"helper"} |-> [name |-> "helper", body |-> "pass"]]}

\* the scope of a type and the functions synthesized into it
Next ==
    \/ \E d \in BOOLEAN : init(d)
    \/ \E c \in ClassNames : new_scope(c)
    \/ \E c \in ClassNames, n \in FuncNames, code \in Codes, g \in Globals :
         add_func(c, n, code, g)

Spec == Init /\ [][Next]_vars

\* the structural instance check, on a class whose type check function the
\* decorators register
NextCheck ==
    \/ check
    \/ check_return
    \/ \E c \in ClassNames : new_scope(c)
    \/ \E c \in ClassNames : register_type_check(c)

SpecCheck == Init /\ [][NextCheck]_vars

\* Tagging objects and their validation
NextTagging ==
    \/ \E tag \in OptStrs, content \in OptStrs, kind \in Kinds :
         construct(Tagging(tag, content, kind))
    \/ \E tag \in OptStrs, content \in OptStrs :
         construct(InternalTagging(tag, content))
    \/ \E tag \in OptStrs, content \in OptStrs :
         construct(AdjacentTagging(tag, content))
    \/ check_tagging

SpecTagging == Init /\ [][NextTagging]_vars

\* what every thread does to register a union and to use it
RegistrySteps ==
    \/ \E t \in Threads : check_then_create(t)
    \/ \E t \in Threads : add_union_make(t)
    \/ \E t \in Threads : add_union_serialize(t)
    \/ \E t \in Threads : add_union_deserialize(t)
    \/ \E t \in Threads : add_union_store(t)
    \/ \E t \in Threads : serialize_union(t)
    \/ \E t \in Threads : deserialize_union(t)
    \/ \E t \in Threads : finish(t)

\* the registry used by threads that run unsynchronized
NextRegistry ==
    \/ \E t \in Threads, cls \in RacedUnions : call(t, cls)
    \/ RegistrySteps

SpecRegistry == Init /\ [][NextRegistry]_vars

\* the registry used by one caller at a time
NextRegistrySeq ==
    \/ \E t \in Threads, cls \in RegUnions : call_alone(t, cls)
    \/ RegistrySteps

SpecRegistrySeq == Init /\ [][NextRegistrySeq]_vars

\* field descriptors: derived from the fields of a class or made directly,
\* their skip predicate called, their name converted
NextField ==
    \/ from_dataclass
    \/ construct_field
    \/ \E v \in SkipValues : call_skip_if(v)
    \/ \E case \in Cases : conv_name(case)
    \/ field_return

SpecField == Init /\ [][NextField]_vars

\* coerce called on a value and a class
NextCoerce ==
    \E t \in CoerceTypes, o \in Values : coerce(t, o)

SpecCoerce == Init /\ [][NextCoerce]_vars

(***************************************************************************)
(* The structural instance check (SpecCheck).                              *)
(***************************************************************************)
called == result # "idle"

\* C1: the check is total: every call of is_instance, whatever the value
\* and the type descriptor, returns True or False and raises nothing.
C1_CheckIsTotal == called => result \in {"True", "False"}

\* what C7 says of a tuple type: every element of a variable-length tuple
\* matches the one element type; a fixed-arity tuple has exactly the
\* declared length and matches position by position
TupleMatches(o, t) ==
    /\ o.k = "tuple"
    /\ IF is_variable_tuple(t)
       THEN \A i \in 1..Len(o.items) : is_instance(o.items[i], t.args[1]) = "True"
       ELSE /\ Len(o.items) = Len(t.args)
            /\ \A i \in 1..Len(t.args) : is_instance(o.items[i], t.args[i]) = "True"

\* C7: against a tuple type with declared element types the check is true
\* iff the value is a tuple of which TupleMatches holds.
C7_TupleCheck ==
    (called /\ is_tuple(typ) /\ ~is_bare_tuple(typ))
        => result = Bool(TupleMatches(obj, typ))

\* C8: against List(T) a non-list never matches, an empty list matches, and
\* any other list gets the result of checking its element 0 against T,
\* whatever the later elements are: [1, "x"] matches List(int), ["x", 1]
\* does not.
C8_ListSamplesFirst ==
    (called /\ is_list(typ) /\ ~is_bare_list(typ)) =>
        /\ obj.k # "list" => result = "False"
        /\ (obj.k = "list" /\ obj.items = <<>>) => result = "True"
        /\ (obj.k = "list" /\ obj.items # <<>>)
              => result = is_instance(obj.items[1], typ.args[1])
        /\ (obj = Box("list", <<Int1, StrX>>) /\ typ = TList(TInt))
              => result = "True"
        /\ (obj = Box("list", <<StrX, Int1>>) /\ typ = TList(TInt))
              => result = "False"

\* C8 witness: [1, "x"] has been checked against List(int) and matched
C8_Witness ==
    /\ obj = Box("list", <<Int1, StrX>>)
    /\ typ = TList(TInt)
    /\ result = "True"

\* the variants of a union that the value matches
MatchingVariants(o, t) ==
    {i \in 1..Len(t.args) : is_instance(o, t.args[i]) = "True"}

\* C9: against Union(T1..Tn) the check is true iff the value matches at
\* least one Ti, and it returns at the first variant, in declaration order,
\* that matches: True against Union(bool, int) is matched by variant 1.
C9_UnionFirstMatch ==
    (called /\ is_union(typ)) =>
        /\ result = "True" <=> MatchingVariants(obj, typ) # {}
        /\ result = "True" =>
              /\ matched \in MatchingVariants(obj, typ)
              /\ \A i \in MatchingVariants(obj, typ) : matched <= i
        /\ (obj = PyTrue /\ typ = TUnion(<<TBool, TInt>>)) => matched = 1

\* C10: against Optional(T) None matches, and any other value gets the
\* result of checking it against T; None does not match int, bool or str.
C10_OptionalCheck ==
    called =>
        /\ is_opt(typ) =>
              /\ obj = None => result = "True"
              /\ obj # None => result = is_instance(obj, typ.args[1])
        /\ (obj = None /\ typ \in {TInt, TBool, TStr}) => result = "False"

\* C10 witness: None has been checked against Optional(int) and matched
C10_Witness ==
    /\ obj = None
    /\ typ = TOpt(TInt)
    /\ result = "True"

\* isinstance(obj, typ) on the record type itself
nominal(o, t) == Bool(isinstance(o, t.name))

\* C11: against a record type whose Scope holds a "typecheck" function the
\* function is called on the value and a failure it signals makes the
\* result False (else the result is the nominal check); with no Scope, or a
\* Scope without a "typecheck" function, the result is the nominal check.
C11_RecordCheck ==
    (called /\ is_dataclass(typ)) =>
        LET serde_scope == scopes[typ.name] IN
        IF serde_scope.exists /\ TYPE_CHECK \in DOMAIN serde_scope.funcs
        THEN IF call_func(serde_scope.funcs[TYPE_CHECK], typ, obj) # "ok"
             THEN result = "False"
             ELSE result = nominal(obj, typ)
        ELSE result = nominal(obj, typ)


(***************************************************************************)
(* Field descriptors (SpecField).                                          *)
(***************************************************************************)
\* the field is configured with an explicit skip predicate
explicit_predicate(md) == callable(md.serde_skip_if)

\* C12: the skip_if slot of a derived descriptor holds at most one
\* predicate, chosen in the order explicit predicate > skip-on-false >
\* skip-on-default-equal; with both skip-on-false and an explicit predicate
\* it holds the explicit one, and with skip-on-default-equal only it holds a
\* predicate that is true exactly of the values equal to the field's default.
C12_SkipPriority ==
    LET md == field.metadata
        on_false == md.serde_skip_if_false.truthy
        on_default == md.serde_skip_if_default.truthy
        slot == field.skip_if
    IN /\ explicit_predicate(md) =>
              /\ slot.some
              /\ slot.inner = md.serde_skip_if.fn
              /\ slot.mangeld = mangle(field, SKIP_IF)
       /\ (~explicit_predicate(md) /\ on_false) =>
              /\ slot.some
              /\ slot.inner = skip_if_false
              /\ slot.mangeld = mangle(field, SKIP_IF_FALSE)
       /\ (~explicit_predicate(md) /\ ~on_false /\ on_default) =>
              /\ slot.some
              /\ slot.mangeld = mangle(field, SKIP_IF_DEFAULT)
              /\ \A v \in SkipValues :
                    call_inner(slot.inner, v) = Bool(py_eq(v, field.default))
              /\ skip_call.done =>
                    skip_call.res = Bool(py_eq(skip_call.arg, field.default))
       /\ (~explicit_predicate(md) /\ ~on_false /\ ~on_default) => ~slot.some

\* C12 witness: a field configured with skip-on-false and the explicit
\* predicate is_none holds is_none, which was called on 0 and said False
C12_Witness ==
    /\ field.metadata.serde_skip_if_false = Flag(TRUE)
    /\ field.metadata.serde_skip_if = Pred(is_none)
    /\ field.skip_if.inner = is_none
    /\ skip_call.done
    /\ skip_call.arg = Int0
    /\ skip_call.res = "False"

\* the names in the alias list of a field
AliasNames(f) == {f.alias[i] : i \in 1..Len(f.alias)}

\* C13, as claimed: conv returns rename when rename is present, otherwise
\* the declared name with the case policy applied (the declared name
\* itself without a case policy); it never returns an alias name, and it
\* raises a configuration error when the resolved name is absent.
C13_ConvAsClaimed ==
    conv_call.done =>
        LET c == conv_call.case IN
        /\ field.rename.some =>
              conv_call.raised = "none" /\ conv_call.name = field.rename
        /\ (~field.rename.some /\ field.name.some /\ (~truthy(c) \/ has_casef(c.s))) =>
              /\ conv_call.raised = "none"
              /\ conv_call.name =
                    Name(IF truthy(c) THEN casef(c.s, field.name.s) ELSE field.name.s)
        /\ conv_call.raised = "none" => conv_call.name.s \notin AliasNames(field)
        /\ (~field.rename.some /\ ~field.name.some) => conv_call.raised = "SerdeError"

\* C13, amended: a case policy that names no conversion raises a
\* configuration error, whatever rename is; otherwise conv returns rename
\* when rename is a non-empty string, otherwise the declared name with the
\* case policy applied (the declared name itself without a case policy,
\* also when rename is the empty string); it never returns an alias name,
\* and it raises a configuration error when the resolved name is None.
C13_ConvName ==
    conv_call.done =>
        LET c == conv_call.case IN
        IF truthy(c) /\ ~has_casef(c.s)
        THEN conv_call.raised = "SerdeError"
        ELSE /\ truthy(field.rename) =>
                   conv_call.raised = "none" /\ conv_call.name = field.rename
             /\ (~truthy(field.rename) /\ field.name.some) =>
                   /\ conv_call.raised = "none"
                   /\ conv_call.name =
                         Name(IF truthy(c) THEN casef(c.s, field.name.s)
                              ELSE field.name.s)
             /\ conv_call.raised = "none" =>
                   conv_call.name.s \notin AliasNames(field)
             /\ (~truthy(field.rename) /\ ~field.name.some) =>
                   conv_call.raised = "SerdeError"

\* C13 witness: user_id, renamed to ID and aliased uid, was converted under
\* camelcase and came out as ID
C13_Witness ==
    /\ field.name = Name(NameUserId)
    /\ field.rename = Name(NameID)
    /\ field.alias = <<NameUid>>
    /\ conv_call.done
    /\ conv_call.case = Name(CAMELCASE)
    /\ conv_call.raised = "none"
    /\ conv_call.name = Name(NameID)

(***************************************************************************)
(* coerce (SpecCoerce).                                                    *)
(***************************************************************************)
\* C14: coerce(typ, obj) calls typ(obj) only when obj is not None and is
\* not already an instance of typ; when obj is None or an instance of typ
\* the constructor is not called and obj is returned unchanged.
C14_CoerceOnlyNonConformant ==
    coerced.done =>
        LET conforms == is_instance(coerced.obj, coerced.typ) = "True" IN
        /\ coerced.constructed => (coerced.obj # None /\ ~conforms)
        /\ (coerced.obj = None \/ conforms) =>
              /\ ~coerced.constructed
              /\ coerced.out = Returned(coerced.obj)

(***************************************************************************)
(* add_func on a Scope (Spec).                                             *)
(***************************************************************************)
\* the calls in h made with name n, by position
CallsWith(h, n) == {i \in 1..Len(h) : h[i].name = n}
Last(S) == CHOOSE i \in S : \A j \in S : j <= i

\* C4: after any sequence of add_func calls that returned, the names in
\* scope.funcs are the names the calls were made with, and each name holds
\* the callable defined by the source text of the most recent call made
\* with that name; so an earlier registration under the name is replaced
\* without an error and the other names keep their entries.
C4_AddFuncLastWins ==
    \A c \in ClassNames :
        LET h == history[c]
            funcs == scopes[c].funcs
        IN /\ DOMAIN funcs = {h[i].name : i \in 1..Len(h)}
           /\ \A n \in DOMAIN funcs :
                 funcs[n] = Callable(h[Last(CallsWith(h, n))].code)

\* C4 witness: a name was registered twice with different callables, the
\* call that replaced it returned, and another name is registered too
C4_Witness ==
    \E c \in ClassNames :
        LET h == history[c] IN
        /\ raised = "none"
        /\ Len(h) = 3
        /\ h[1].name = h[3].name
        /\ h[1].code # h[3].code
        /\ h[2].name # h[1].name
        /\ scopes[c].funcs[h[3].name] = Callable(h[3].code)
        /\ scopes[c].funcs[h[2].name] = Callable(h[2].code)

\* C16: after any sequence of init(debug) and add_func calls, every name
\* with retained source text in scope.code has a callable in scope.funcs,
\* and the retained text is the source of that callable: a name registered
\* again while debug is off does not keep the text of the callable that was
\* overwritten.
C16_RetainedSourceIsCurrent ==
    \A c \in ClassNames :
        LET serde_scope == scopes[c] IN
        \A n \in DOMAIN serde_scope.code :
            /\ n \in DOMAIN serde_scope.funcs
            /\ serde_scope.funcs[n] = Callable(serde_scope.code[n])

(***************************************************************************)
(* Tagging (SpecTagging).                                                  *)
(***************************************************************************)
\* a Tagging that lacks what its kind requires
Incomplete(t) ==
    \/ t.kind = "Internal" /\ t.tag = NoneStr
    \/ t.kind = "Adjacent" /\ (t.tag = NoneStr \/ t.content = NoneStr)

\* C5: check() raises exactly when kind is Internal and tag is None, or
\* kind is Adjacent and tag or content is None; for External and Untagged
\* it never raises.
C5_CheckRaisesIffIncomplete ==
    tagging_checked # "unchecked" =>
        /\ tagging_checked = "SerdeError" <=> Incomplete(tagging)
        /\ tagging.kind \in {"External", "Untagged"} => tagging_checked = "ok"

\* C5 witness: check() raised on an Adjacent tagging that has a tag and no
\* content
C5_Witness ==
    /\ tagging.kind = "Adjacent"
    /\ tagging.tag = Str("type")
    /\ tagging.content = NoneStr
    /\ tagging_checked = "SerdeError"

\* C6, as claimed: no Tagging with kind Internal and no tag, or kind
\* Adjacent and a missing tag or content, exists after construction.
C6_NoIncompleteTaggingExists == ~Incomplete(tagging)

\* C6, amended: constructing such a Tagging raises nothing; check() raises
\* on it, so no such Tagging has passed check().
C6_NoIncompleteTaggingPassesCheck ==
    Incomplete(tagging) => tagging_checked \in {"unchecked", "SerdeError"}

\* C6 witness: an Internal tagging without a tag was constructed by the
\* partial InternalTagging, and check() raised on it
C6_Witness ==
    /\ tagging = InternalTagging(NoneStr, NoneStr)
    /\ tagging_checked = "SerdeError"


(***************************************************************************)
(* The registry (SpecRegistrySeq, SpecRegistry).                           *)
(***************************************************************************)
class_name_of(cls) == union_func_name(GLOBAL_PREFIX, type_args(cls))

\* the Scope of wrapper w holds both functions of its union
Populated(w) ==
    se_funcs(wrappers[w].cls) \cup de_funcs(wrappers[w].cls) \subseteq wrappers[w].funcs

\* C2: with one registration at a time, once a signature has been
\* registered its entry in classes stays the wrapper of that first
\* registration, and every later registration of a union with that
\* signature returns this wrapper (and so its Scope).
C2_SameWrapperAsFirst ==
    /\ \A k \in DOMAIN first : k \in DOMAIN classes /\ classes[k] = first[k]
    /\ \A t \in Threads :
          pc[t] \in {"done", "used"} => ret[t] = first[class_name_of(union_cls[t])]

\* C2 witness: a registration found its signature registered and returned
\* the wrapper an earlier one had made, with its Scope populated
C2_Witness ==
    \E t \in Threads :
        /\ pc[t] = "done"
        /\ wrapper_dataclass[t] = 0
        /\ ret[t] # 0
        /\ ret[t] = first[class_name_of(union_cls[t])]
        /\ Populated(ret[t])

\* the stores into classes under class name k, by position in stored
StoresOf(k) == {i \in 1..Len(stored) : class_name_of(wrappers[stored[i]].cls) = k}

\* C3: with unsynchronized threads, every wrapper in classes is stored
\* under the class name of its own union with its Scope fully populated, so
\* no lookup of a union function in a wrapper get_union returned fails; a
\* race at worst makes several wrappers of one signature, of which classes
\* holds the one stored last.
C3_StoredWrappersArePopulated ==
    /\ \A k \in DOMAIN classes :
          /\ class_name_of(wrappers[classes[k]].cls) = k
          /\ Populated(classes[k])
          /\ classes[k] = stored[Last(StoresOf(k))]
    /\ \A t \in Threads : lookup[t] \in {"none", "ok"}

\* C3 witness: two threads raced on one signature, both made and stored a
\* wrapper, classes holds the later one, and a lookup in it succeeded
C3_Witness ==
    /\ Len(stored) = 2
    /\ wrappers[stored[1]].cls = wrappers[stored[2]].cls
    /\ stored[1] # stored[2]
    /\ classes[class_name_of(wrappers[stored[2]].cls)] = stored[2]
    /\ \E t \in Threads : lookup[t] = "ok" /\ ret[t] = stored[1]

\* what C15 calls the sanitized joined names of a union: the canonical
\* names of its variants, in order, joined with '_', every character
\* outside [A-Za-z0-9_] replaced by '_'
SanitizedNames(cls) ==
    LET joined == join([i \in 1..Len(type_args(cls)) |-> typename(type_args(cls)[i])])
    IN [i \in 1..Len(joined) |->
           IF joined[i] \in AlphaNum \cup {"_"} THEN joined[i] ELSE "_"]

\* C15: two unions resolve to the same entry of classes iff their
\* sanitized joined names are equal: once one of them is registered the
\* other resolves to its wrapper, Union[int, str] and Union[str, int] get
\* different entries, and Union[List[str], int] shares the entry of
\* Union[List_str_, int].
C15_EntryIffSanitizedNamesEqual ==
    /\ \A u1 \in RegUnions, u2 \in RegUnions :
          get_union(u1) # 0 =>
              (get_union(u2) = get_union(u1) <=> SanitizedNames(u1) = SanitizedNames(u2))
    /\ (get_union(TUnion(<<TInt, TStr>>)) # 0 /\ get_union(TUnion(<<TStr, TInt>>)) # 0)
          => get_union(TUnion(<<TInt, TStr>>)) # get_union(TUnion(<<TStr, TInt>>))
    /\ get_union(TUnion(<<TList(TStr), TInt>>)) = get_union(TUnion(<<TListStr_, TInt>>))

\* C15 witness: a registration of Union[List_str_, int] returned the
\* wrapper that was made for Union[List[str], int]
C15_Witness ==
    \E t \in Threads :
        /\ pc[t] = "done"
        /\ union_cls[t] = TUnion(<<TListStr_, TInt>>)
        /\ ret[t] # 0
        /\ wrappers[ret[t]].cls = TUnion(<<TList(TStr), TInt>>)
        /\ classes[class_name_of(union_cls[t])] = ret[t]

=============================================================================
